---- MODULE Spec2Model ----
(***************************************************************************)
(* The ticket purchase transaction of RobustTicketing:                     *)
(*   src/src/routes/tickets.js      router.post('/purchase')               *)
(*   src/unnamed/part_003           validateRequest (middleware)           *)
(*   src/src/config/database.js     getClient                              *)
(*                                                                         *)
(* The relational store is the collaborator the handler talks to through   *)
(* client.query: committed rows, plus one open transaction per connection. *)
(* A PostgreSQL client comes from the pool (one connection per attempt,    *)
(* READ COMMITTED); the SQLite client is the single handle `db`, shared by *)
(* every attempt.  Every awaited statement is one step; the synchronous    *)
(* code that follows an await belongs to the same step.                    *)
(*                                                                         *)
(* `db` in the handler is the default export of config/database.js.  Any   *)
(* awaited statement may reject, and logActivity / logError may throw      *)
(* (tickets.js neither imports nor defines them before line 695); at most  *)
(* MaxFaults such failures happen in one behaviour.  A statement that      *)
(* throws has no effect on the store.                                      *)
(*                                                                         *)
(* att[p].verdict, wrote, commitOk and released record what the handler    *)
(* did: the result of its checks ("unchecked" until a check failed or all  *)
(* passed, then the failure or "none"), the INSERT/UPDATE statements it    *)
(* issued, whether its COMMIT returned, and its calls of client.release(). *)
(* att[p].status is the status code of the response (NoResponse when the   *)
(* exception left the handler), att[p].tries the INSERT statements issued  *)
(* for the ticket the creation loop is at.                                 *)
(*                                                                         *)
(* The rows carry the columns the route's statements name (quantity,       *)
(* max_per_order, code, status 'valid'); amounts are whole numbers of the  *)
(* smallest currency unit.  Of the constraints of the tables created in    *)
(* config/database.js the store keeps the UNIQUE one on the ticket code:   *)
(* an INSERT of a code that a visible row carries is rejected, and one     *)
(* whose code an uncommitted row of another connection carries waits.  A   *)
(* ticket code is drawn by generateTicketCode from codeSpace: "wide" (no   *)
(* two calls of a run agree) or "narrow" (NumCodes codes).                 *)
(*                                                                         *)
(* The caller of a purchase may go away while the transaction is open      *)
(* (Disconnect, att[p].closed).  Tickets are validated at the door by      *)
(* router.post('/validate') of routes/tickets.js, and orders are refunded  *)
(* and confirmed by router.post('/refund') and router.post('/confirm')     *)
(* (config/database.js:575-831); these handlers issue their statements     *)
(* through db.query outside any transaction, one step per statement, and   *)
(* val, ref and con hold the locals of their calls.                        *)
(***************************************************************************)
EXTENDS Integers, Sequences, FiniteSets, TLC

\* ---------------------------------------------------------------- bounds
NumAttempts == 3      \* purchase requests in flight
MaxFaults == 1        \* statements / calls that may throw in one behaviour
MaxTotal == 1         \* largest capacity of ticket type t1
MaxTime == 2          \* last clock value
NumCodes == 2         \* codes generateTicketCode yields when its space is narrow
NumCalls == 2         \* concurrent calls of each of /validate, /refund, /confirm

\* ------------------------------------------------- purchaseSchema constants
TicketsMinLength == 1
TicketsMaxLength == 20
QuantityMin == 1
QuantityMax == 10
DefaultMaxPerOrder == 10

\* SQL NULL / JS null or undefined, for the nullable number and date columns
NULL == -1000
NoId == "none"

\* res.status(...): the status codes the handler and the middleware send
Created == 201
BadRequest == 400
NoResponse == 0

Calls == 1..NumCalls
Attempts == 1..NumAttempts
SqliteHandle == 0
Conns == {SqliteHandle} \cup Attempts

\* ------------------------------------------------------------ fixed rows
\* events rows the purchase reads (id, status, deleted_at, start_date)
events ==
  { [id |-> "e1", status |-> "published", deleted_at |-> NULL, start_date |-> 2,
     end_date |-> 2],
    [id |-> "e2", status |-> "draft",     deleted_at |-> NULL, start_date |-> 2,
     end_date |-> 2],
    [id |-> "e3", status |-> "published", deleted_at |-> 1,    start_date |-> 2,
     end_date |-> 2] }

\* ticket_types rows as POST /events/:eventId/ticket-types writes them
TicketTypeRow(id, ev, qty, price) ==
  [id |-> id, event_id |-> ev, price |-> price, quantity |-> qty,
   sale_start_date |-> NULL, sale_end_date |-> NULL,
   max_per_order |-> DefaultMaxPerOrder, is_active |-> TRUE, deleted_at |-> NULL]

\* ---------------------------------------------------------------- inputs
OrderLine(tt, q) == [ticketTypeId |-> tt, quantity |-> q]

LongTickets ==
  [i \in 1..(TicketsMaxLength + 1) |-> OrderLine("t1", 1)]

\* request bodies a caller may send
RaceBodies ==
  { [eventId |-> "e1", tickets |-> <<OrderLine("t1", 1)>>],
    [eventId |-> "e1", tickets |-> <<OrderLine("t1", 0)>>],
    [eventId |-> "e2", tickets |-> <<OrderLine("t1", 1)>>] }

InputBodies ==
  RaceBodies \cup
  { [eventId |-> "e1", tickets |-> <<>>],
    [eventId |-> "e1", tickets |-> LongTickets],
    [eventId |-> "e1", tickets |-> <<OrderLine("t1", -1)>>],
    [eventId |-> "e1", tickets |-> <<OrderLine("t1", NULL)>>],
    [eventId |-> "e1", tickets |-> <<OrderLine("t1", 2)>>],
    [eventId |-> "e1", tickets |-> <<OrderLine("t1", QuantityMax + 1)>>],
    [eventId |-> "e1", tickets |-> <<OrderLine("t2", 2)>>],
    [eventId |-> "e1", tickets |-> <<OrderLine("t1", 1), OrderLine("t2", 1)>>],
    [eventId |-> "e1", tickets |-> <<OrderLine("t2", 1), OrderLine("t1", 2)>>],
    [eventId |-> "e1", tickets |-> <<OrderLine("t1", 1), OrderLine("t1", 1)>>],
    [eventId |-> "e1", tickets |-> <<OrderLine("t3", 1)>>],
    [eventId |-> "e1", tickets |-> <<OrderLine("t1", 1), OrderLine("t2", 1),
                                     OrderLine("t1", 1)>>],
    [eventId |-> "e1", tickets |-> <<OrderLine("t4", 1)>>],
    [eventId |-> "e1", tickets |-> <<OrderLine("t5", 1)>>],
    [eventId |-> "e1", tickets |-> <<OrderLine("t1", 1), OrderLine("t5", 1)>>],
    [eventId |-> "e3", tickets |-> <<OrderLine("t1", 1)>>],
    [eventId |-> "e9", tickets |-> <<OrderLine("t1", 1)>>] }

NoBody == [eventId |-> NoId, tickets |-> <<>>]

VARIABLES
  backend,        \* usePostgreSQL(): "postgres" or "sqlite"
  bodies,         \* the request bodies callers send in this run
  callers,        \* the attempts that receive a request in this run
  now,            \* the clock
  ticket_types,   \* ticket_types rows
  orders,         \* committed orders rows
  tickets,        \* committed tickets rows
  txn,            \* per connection: the open transaction and its writes
  att,            \* per purchase attempt: the handler's locals
  faults,         \* calls that have thrown so far
  codeSpace,      \* "wide": Math.random never repeats a code in this run;
                  \* "narrow": every code comes from NarrowCodes
  val,            \* per POST /validate call: the handler's locals
  ref,            \* per POST /refund call: the handler's locals
  con             \* per POST /confirm call: the handler's locals

vars ==
  <<backend, bodies, callers, now, ticket_types, orders, tickets, txn, att,
    faults, codeSpace, val, ref, con>>

\* ------------------------------------------------------ validateRequest
\* part_003:28-36 and 173: a required value is missing
IsMissing(value) == value = NULL

\* part_003:167-184: the only rule applied to an array item is `required`
ItemErrors(item) ==
  (IF item.ticketTypeId = NoId THEN 1 ELSE 0) +
  (IF IsMissing(item.quantity) THEN 1 ELSE 0)

\* part_003:149-165: minLength / maxLength of the tickets array
ArrayLengthErrors(value) ==
  (IF Len(value) < TicketsMinLength THEN 1 ELSE 0) +
  (IF Len(value) > TicketsMaxLength THEN 1 ELSE 0)

\* validateRequest(purchaseSchema): next() is called iff errors is empty
ValidateRequest(body) ==
  /\ body.eventId # NoId
  /\ ArrayLengthErrors(body.tickets) = 0
  /\ \A k \in 1..Len(body.tickets) : ItemErrors(body.tickets[k]) = 0

\* ------------------------------------------------------------ the store
NoTxn == [active |-> FALSE, orders |-> {}, tickets |-> {}, upd |-> {}]

\* getClient: pool.connect() gives each attempt its own connection,
\* the SQLite handle is the same object for everyone
GetClient(b, p) == IF b = "postgres" THEN p ELSE SqliteHandle

\* BEGIN inside a transaction, COMMIT or ROLLBACK outside one: a warning
\* on PostgreSQL, an error on SQLite
TxnStatementThrows(b, stmt, active) ==
  /\ b = "sqlite"
  /\ \/ stmt = "BEGIN" /\ active
     \/ stmt \in {"COMMIT", "ROLLBACK"} /\ ~active

SetStatus(rows, ids, status) ==
  { IF r.id \in ids THEN [r EXCEPT !.status = status] ELSE r : r \in rows }

\* rows a statement on connection c reads
ViewTickets(c) == tickets \cup txn[c].tickets
ViewOrders(c) == SetStatus(orders, txn[c].upd, "completed") \cup txn[c].orders

\* COUNT(t.id) of the LEFT JOIN ... AND t.status != 'cancelled'
SoldCount(c, id) ==
  Cardinality({ t \in ViewTickets(c) :
                  t.ticket_type_id = id /\ t.status # "cancelled" })

\* the state of the store after a statement: [o, t, x] = orders, tickets, txn
StBegin(c) ==
  [o |-> orders, t |-> tickets, x |-> [txn EXCEPT ![c].active = TRUE]]

StInsertOrder(c, row) ==
  IF txn[c].active
  THEN [o |-> orders, t |-> tickets,
        x |-> [txn EXCEPT ![c].orders = @ \cup {row}]]
  ELSE [o |-> orders \cup {row}, t |-> tickets, x |-> txn]

StInsertTicket(c, row) ==
  IF txn[c].active
  THEN [o |-> orders, t |-> tickets,
        x |-> [txn EXCEPT ![c].tickets = @ \cup {row}]]
  ELSE [o |-> orders, t |-> tickets \cup {row}, x |-> txn]

StUpdateOrder(c, id, status) ==
  IF txn[c].active
  THEN [o |-> orders, t |-> tickets,
        x |-> [txn EXCEPT
                 ![c].orders = SetStatus(@, {id}, status),
                 ![c].upd = @ \cup { r.id : r \in { q \in orders : q.id = id } }]]
  ELSE [o |-> SetStatus(orders, {id}, status), t |-> tickets, x |-> txn]

StCommit(c) ==
  [o |-> ViewOrders(c), t |-> ViewTickets(c), x |-> [txn EXCEPT ![c] = NoTxn]]

StRollback(c) ==
  [o |-> orders, t |-> tickets, x |-> [txn EXCEPT ![c] = NoTxn]]

\* ---------------------------------------------------- ticket codes
\* A code stands for one 10-character string over A-Z0-9.
NarrowCodes == 1..NumCodes
FreshCode(p, n) == 1000 * p + n

\* generateTicketCode(): the codes the n-th call of attempt p may return
GenerateTicketCode(p, n) ==
  IF codeSpace = "wide" THEN {FreshCode(p, n)} ELSE NarrowCodes

\* a tickets table without the UNIQUE constraint
CodeNeverTaken(c, code) == FALSE

\* the UNIQUE constraint on the code of a ticket: a row the connection sees
\* carries the code
CodeTaken(c, code) == \E t \in ViewTickets(c) : t.code = code

\* an uncommitted row of another connection carries the code
CodeLocked(c, code) ==
  \E d \in Conns \ {c} :
    txn[d].active /\ \E t \in txn[d].tickets : t.code = code

\* ------------------------------------------------- the purchase handler
Idle ==
  [pc |-> "idle", body |-> NoBody, client |-> NULL, now |-> NULL,
   totalAmount |-> 0, li |-> 1, i |-> 0, created |-> 0,
   outcome |-> "none", verdict |-> "unchecked", error |-> "none",
   avail |-> NULL, status |-> NoResponse,
   wrote |-> 0, commitOk |-> FALSE, released |-> 0, tries |-> 0,
   closed |-> FALSE]

\* the locals of a call of POST /validate, /refund and /confirm before the
\* request arrives: id is the row the handler read, answer its response
\* ("none" until it is sent), seen the status of the order at the read
IdleCall ==
  [pc |-> "idle", id |-> NULL, answer |-> "none", seen |-> "none"]

NoCalls ==
  /\ val = [v \in Calls |-> IdleCall]
  /\ ref = [r \in Calls |-> IdleCall]
  /\ con = [c \in Calls |-> IdleCall]

\* a call may throw while fewer than MaxFaults calls have thrown
MayThrow == IF faults < MaxFaults THEN BOOLEAN ELSE {FALSE}

\* throw inside the try block: control goes to the catch clause
Throw(a, error, avail) ==
  [a EXCEPT !.pc = "rollback", !.error = error, !.avail = avail]

\* tickets.js:283-287 eventQuery
EventRows(eventId) ==
  { e \in events :
      e.id = eventId /\ e.deleted_at = NULL /\ e.status = "published" }

EventErrorAfterStartOnly(rows, nowv) ==
  IF rows = {} THEN "EventUnavailable"
  ELSE IF \E e \in rows : e.start_date < nowv THEN "EventStarted"
  ELSE "none"

\* tickets.js:289-298: the two checks on the event, "" when both pass
EventError(rows, nowv) ==
  IF rows = {} THEN "EventUnavailable"
  ELSE IF \E e \in rows : e.start_date <= nowv THEN "EventStarted"
  ELSE "none"

\* where the handler goes after the checks on the event
AfterEventCheck(a, err, nowv) ==
  IF err # "none" THEN Throw(a, err, NULL)
  ELSE [a EXCEPT !.pc = "types", !.now = nowv]

TicketTypeRowsWithDeleted(c, ids, eventId) ==
  { [type |-> tt, sold_count |-> SoldCount(c, tt.id)] :
      tt \in { r \in ticket_types : r.id \in ids /\ r.event_id = eventId } }

\* tickets.js:302-309 ticketTypesQuery, each row with its sold_count
TicketTypeRows(c, ids, eventId) ==
  { [type |-> tt, sold_count |-> SoldCount(c, tt.id)] :
      tt \in { r \in ticket_types :
                 r.id \in ids /\ r.event_id = eventId /\ r.deleted_at = NULL } }

TicketTypeIds(lines) == { lines[k].ticketTypeId : k \in 1..Len(lines) }

\* tickets.js:337: order.quantity > ticketType.max_per_order (null counts as 0)
OverMaxPerOrder(quantity, max_per_order) ==
  quantity > (IF max_per_order = NULL THEN 0 ELSE max_per_order)

\* the available count with the tickets already sold left out
AvailableCountOfCapacity(row) == row.type.quantity

\* tickets.js:341
AvailableCount(row) == row.type.quantity - row.sold_count

\* the checks of one line with the quantity checks ahead of the sale period
LineErrorQuantityFirst(row, order, nowv) ==
  IF ~row.type.is_active THEN "Inactive"
  ELSE IF OverMaxPerOrder(order.quantity, row.type.max_per_order)
    THEN "MaxPerOrder"
  ELSE IF order.quantity > AvailableCount(row) THEN "Insufficient"
  ELSE IF row.type.sale_start_date # NULL /\ row.type.sale_start_date > nowv
    THEN "NotStarted"
  ELSE IF row.type.sale_end_date # NULL /\ row.type.sale_end_date < nowv
    THEN "Ended"
  ELSE "none"

\* tickets.js:321-344: the checks of one line, in the order of the code
LineError(row, order, nowv) ==
  IF ~row.type.is_active THEN "Inactive"
  ELSE IF row.type.sale_start_date # NULL /\ row.type.sale_start_date > nowv
    THEN "NotStarted"
  ELSE IF row.type.sale_end_date # NULL /\ row.type.sale_end_date < nowv
    THEN "Ended"
  ELSE IF OverMaxPerOrder(order.quantity, row.type.max_per_order)
    THEN "MaxPerOrder"
  ELSE IF order.quantity > AvailableCount(row) THEN "Insufficient"
  ELSE "none"

\* the amount a line adds with the quantity left out
LineAmountUnitPrice(price, quantity) == price

\* tickets.js:347: ticketType.price * order.quantity
LineAmount(price, quantity) == price * quantity

\* tickets.js:320-348: the loop over ticketOrders from line k on; the first
\* failing line throws, otherwise totalAmount accumulates price * quantity
RECURSIVE ValidateOrders(_, _, _, _, _)
ValidateOrders(rows, lines, k, nowv, total) ==
  IF k > Len(lines) THEN [error |-> "none", avail |-> NULL, total |-> total]
  ELSE LET order == lines[k]
           row == CHOOSE r \in rows : r.type.id = order.ticketTypeId
           err == LineError(row, order, nowv)
       IN IF err # "none"
          THEN [error |-> err,
                avail |-> IF err = "Insufficient" THEN AvailableCount(row) ELSE NULL,
                total |-> total]
          ELSE ValidateOrders(rows, lines, k + 1, nowv,
                              total + LineAmount(row.type.price, order.quantity))

CheckTicketOrdersCountingDistinct(c, body, nowv) ==
  LET rows == TicketTypeRows(c, TicketTypeIds(body.tickets), body.eventId)
  IN IF Cardinality(rows) # Cardinality(TicketTypeIds(body.tickets))
     THEN [error |-> "NotFound", avail |-> NULL, total |-> 0]
     ELSE ValidateOrders(rows, body.tickets, 1, nowv, 0)

\* tickets.js:300-348: lookup, count check and the per-line checks
CheckTicketOrders(c, body, nowv) ==
  LET rows == TicketTypeRows(c, TicketTypeIds(body.tickets), body.eventId)
  IN IF Cardinality(rows) # Len(body.tickets)
     THEN [error |-> "NotFound", avail |-> NULL, total |-> 0]
     ELSE ValidateOrders(rows, body.tickets, 1, nowv, 0)

\* tickets.js:377-380: the next (line, i) of the two creation loops at or
\* after (li, i); li = Len + 1 when both loops are over
RECURSIVE NextTicket(_, _, _)
NextTicket(lines, li, i) ==
  IF li > Len(lines) THEN [li |-> li, i |-> 0]
  ELSE IF i < lines[li].quantity THEN [li |-> li, i |-> i]
  ELSE NextTicket(lines, li + 1, 0)

\* the handler with the throw of a failed check left out
AfterChecksIgnoringError(a, res) ==
  [a EXCEPT !.pc = "order", !.totalAmount = res.total]

\* where the handler goes after the per-line checks
AfterChecks(a, res) ==
  IF res.error # "none" THEN Throw(a, res.error, res.avail)
  ELSE [a EXCEPT !.pc = "order", !.totalAmount = res.total]

\* where the handler goes after a ticket INSERT or the order INSERT
AfterInsert(a) ==
  LET nx == NextTicket(a.body.tickets, a.li, a.i)
  IN [a EXCEPT !.li = nx.li, !.i = nx.i,
               !.pc = IF nx.li > Len(a.body.tickets) THEN "update" ELSE "ticket"]

\* the status code of the response: 201 at tickets.js:431, 400 at 452, none
\* when the exception leaves the handler
StatusOf(outcome) ==
  CASE outcome = "success" -> Created
    [] outcome = "error" -> BadRequest
    [] OTHER -> NoResponse

FinishReleasingWhenAnswered(a, outcome) ==
  [a EXCEPT !.pc = "done", !.outcome = outcome, !.status = StatusOf(outcome),
            !.released = IF outcome = "crash" THEN @ ELSE @ + 1]

\* the response, finally { client.release() } and the end of the handler
Finish(a, outcome) ==
  [a EXCEPT !.pc = "done", !.outcome = outcome, !.status = StatusOf(outcome),
            !.released = @ + 1]

SetStore(st) ==
  /\ orders' = st.o
  /\ tickets' = st.t
  /\ txn' = st.x

Fixed ==
  UNCHANGED <<backend, bodies, callers, now, ticket_types, codeSpace,
              val, ref, con>>

\* the request arrives: validateRequest(purchaseSchema), then getClient
Receive(p) ==
  /\ att[p].pc = "idle"
  /\ p \in callers
  /\ \E body \in bodies :
       att' = [att EXCEPT ![p] =
                 IF ValidateRequest(body)
                 THEN [@ EXCEPT !.pc = "begin", !.body = body,
                                !.client = GetClient(backend, p)]
                 ELSE [@ EXCEPT !.pc = "done", !.body = body,
                                !.outcome = "invalid", !.status = BadRequest]]
  /\ UNCHANGED <<orders, tickets, txn, faults>>
  /\ Fixed

\* client.query('BEGIN')
Begin(p) ==
  /\ att[p].pc = "begin"
  /\ \E f \in MayThrow :
       LET c == att[p].client
           throws == f \/ TxnStatementThrows(backend, "BEGIN", txn[c].active)
       IN /\ faults' = IF f THEN faults + 1 ELSE faults
          /\ IF throws
             THEN /\ att' = [att EXCEPT ![p] = Throw(@, "StoreFailure", NULL)]
                  /\ UNCHANGED <<orders, tickets, txn>>
             ELSE /\ att' = [att EXCEPT ![p].pc = "event"]
                  /\ SetStore(StBegin(c))
  /\ Fixed

\* eventQuery and the checks on the event; `now` is read here
CheckEvent(p) ==
  /\ att[p].pc = "event"
  /\ \E f \in MayThrow :
       LET err == EventError(EventRows(att[p].body.eventId), now)
       IN /\ faults' = IF f THEN faults + 1 ELSE faults
          /\ att' = [att EXCEPT ![p] =
                       IF f THEN Throw(@, "StoreFailure", NULL)
                       ELSE AfterEventCheck(
                              [@ EXCEPT !.verdict =
                                 IF err = "none" THEN "unchecked" ELSE err],
                              err, now)]
  /\ UNCHANGED <<orders, tickets, txn>>
  /\ Fixed

\* a validation that takes the units it has checked out of the inventory
CheckTicketsReserving(p) ==
  /\ att[p].pc = "types"
  /\ LET res == CheckTicketOrders(att[p].client, att[p].body, att[p].now)
     IN /\ att' = [att EXCEPT ![p] =
                     AfterChecks([@ EXCEPT !.verdict = res.error], res)]
        /\ ticket_types' =
             IF res.error # "none" THEN ticket_types
             ELSE { IF tt.id \in TicketTypeIds(att[p].body.tickets)
                    THEN [tt EXCEPT !.quantity = @ - 1] ELSE tt :
                    tt \in ticket_types }
  /\ UNCHANGED <<backend, bodies, callers, now, codeSpace, orders, tickets,
                 txn, faults, val, ref, con>>

\* ticketTypesQuery and the validation of every line
CheckTickets(p) ==
  /\ att[p].pc = "types"
  /\ \E f \in MayThrow :
       LET res == CheckTicketOrders(att[p].client, att[p].body, att[p].now)
       IN /\ faults' = IF f THEN faults + 1 ELSE faults
          /\ att' = [att EXCEPT ![p] =
                       IF f THEN Throw(@, "StoreFailure", NULL)
                       ELSE AfterChecks([@ EXCEPT !.verdict = res.error], res)]
  /\ UNCHANGED <<orders, tickets, txn>>
  /\ Fixed

\* INSERT INTO orders ... 'pending'
CreateOrder(p) ==
  /\ att[p].pc = "order"
  /\ \E f \in MayThrow :
       LET row == [id |-> p, event_id |-> att[p].body.eventId,
                   total_amount |-> att[p].totalAmount, status |-> "pending"]
       IN /\ faults' = IF f THEN faults + 1 ELSE faults
          /\ IF f
             THEN /\ att' = [att EXCEPT ![p] = Throw(@, "StoreFailure", NULL)]
                  /\ UNCHANGED <<orders, tickets, txn>>
             ELSE /\ att' = [att EXCEPT ![p] =
                               AfterInsert([@ EXCEPT !.wrote = @ + 1])]
                  /\ SetStore(StInsertOrder(att[p].client, row))
  /\ Fixed

\* the columns and values of ticketQuery: no purchase_price is written
TicketRow(p, n, code, ticketTypeId) ==
  [id |-> <<p, n>>, order_id |-> p, ticket_type_id |-> ticketTypeId,
   code |-> code, status |-> "valid", purchase_price |-> NULL]

\* where the handler goes after a ticket INSERT that was rejected for its code
AfterCodeConflict(a) ==
  Throw([a EXCEPT !.tries = 1], "UniqueViolation", NULL)

\* generateTicketCode, then INSERT INTO tickets ... 'valid', once per unit of
\* the current line.  An INSERT whose code is held by an open transaction of
\* another connection waits for that transaction to end.
CreateTicket(p) ==
  /\ att[p].pc = "ticket"
  /\ \E f \in MayThrow, code \in GenerateTicketCode(p, att[p].created + 1) :
       LET c == att[p].client
           row == TicketRow(p, att[p].created + 1, code,
                            att[p].body.tickets[att[p].li].ticketTypeId)
       IN /\ ~CodeLocked(c, code)
          /\ faults' = IF f THEN faults + 1 ELSE faults
          /\ IF f
             THEN /\ att' = [att EXCEPT ![p] =
                               Throw([@ EXCEPT !.tries = 1], "StoreFailure", NULL)]
                  /\ UNCHANGED <<orders, tickets, txn>>
             ELSE IF CodeTaken(c, code)
             THEN /\ att' = [att EXCEPT ![p] = AfterCodeConflict(@)]
                  /\ UNCHANGED <<orders, tickets, txn>>
             ELSE /\ att' = [att EXCEPT ![p] =
                               AfterInsert([@ EXCEPT !.wrote = @ + 1,
                                                     !.created = @ + 1,
                                                     !.i = @ + 1,
                                                     !.tries = 1])]
                  /\ SetStore(StInsertTicket(c, row))
  /\ Fixed

\* where the handler goes after the UPDATE of the order
AfterUpdate(a) == [a EXCEPT !.pc = "commit", !.wrote = @ + 1]

\* UPDATE orders SET status = 'completed'
CompleteOrder(p) ==
  /\ att[p].pc = "update"
  /\ \E f \in MayThrow :
       /\ faults' = IF f THEN faults + 1 ELSE faults
       /\ IF f
          THEN /\ att' = [att EXCEPT ![p] = Throw(@, "StoreFailure", NULL)]
               /\ UNCHANGED <<orders, tickets, txn>>
          ELSE /\ att' = [att EXCEPT ![p] = AfterUpdate(@)]
               /\ SetStore(StUpdateOrder(att[p].client, p, "completed"))
  /\ Fixed

\* where the handler goes after the COMMIT statement returned
AfterCommit(a, logThrows) ==
  IF logThrows
  THEN Throw([a EXCEPT !.commitOk = TRUE], "LogFailure", NULL)
  ELSE Finish([a EXCEPT !.commitOk = TRUE], "success")

\* client.query('COMMIT'), logActivity, res.status(201), client.release()
Commit(p) ==
  /\ att[p].pc = "commit"
  /\ \E f \in MayThrow, g \in MayThrow :
       LET c == att[p].client
           throws == f \/ TxnStatementThrows(backend, "COMMIT", txn[c].active)
       IN /\ ~(f /\ g)
          /\ faults' = IF f \/ g THEN faults + 1 ELSE faults
          /\ IF throws
             THEN /\ ~g
                  /\ att' = [att EXCEPT ![p] = Throw(@, "StoreFailure", NULL)]
                  /\ UNCHANGED <<orders, tickets, txn>>
             ELSE /\ att' = [att EXCEPT ![p] = AfterCommit(@, g)]
                  /\ SetStore(StCommit(c))
  /\ Fixed

\* catch: client.query('ROLLBACK'), logError, res.status(400); finally release.
\* When ROLLBACK or logError throws, the exception leaves the handler and no
\* response is sent.
Rollback(p) ==
  /\ att[p].pc = "rollback"
  /\ \E f \in MayThrow, g \in MayThrow :
       LET c == att[p].client
           throws == f \/ TxnStatementThrows(backend, "ROLLBACK", txn[c].active)
       IN /\ ~(f /\ g)
          /\ faults' = IF f \/ g THEN faults + 1 ELSE faults
          /\ IF throws
             THEN /\ ~g
                  /\ att' = [att EXCEPT ![p] = Finish(@, "crash")]
                  /\ UNCHANGED <<orders, tickets, txn>>
             ELSE /\ att' = [att EXCEPT ![p] =
                               Finish(@, IF g THEN "crash" ELSE "error")]
                  /\ SetStore(StRollback(c))
  /\ Fixed

Tick ==
  /\ now < MaxTime
  /\ now' = now + 1
  /\ UNCHANGED <<backend, bodies, callers, ticket_types, orders, tickets, txn,
                 att, faults, codeSpace, val, ref, con>>

\* t4 is a soft-deleted type of e1, t5 a type of another event
TicketTypeTables ==
  { { TicketTypeRow("t1", "e1", n, 20), TicketTypeRow("t2", "e1", 2, 5),
      [TicketTypeRow("t4", "e1", 2, 5) EXCEPT !.deleted_at = 1],
      TicketTypeRow("t5", "e2", 2, 5) } :
      n \in 1..MaxTotal }

InitWith(backends, bs, cs, spaces) ==
  /\ backend \in backends
  /\ codeSpace \in spaces
  /\ bodies = bs
  /\ callers = cs
  /\ now = 1
  /\ ticket_types \in TicketTypeTables
  /\ orders = {}
  /\ tickets = {}
  /\ txn = [c \in Conns |-> NoTxn]
  /\ att = [p \in Attempts |-> Idle]
  /\ faults = 0
  /\ NoCalls

Backends == {"postgres", "sqlite"}

\* concurrent purchases, on either store
Init == InitWith(Backends, RaceBodies, Attempts, {"wide"})

\* concurrent purchases on pooled PostgreSQL connections
InitPostgres == InitWith({"postgres"}, RaceBodies, Attempts, {"wide"})

\* one caller, every request body
InitInputs == InitWith(Backends, InputBodies, {1}, {"wide", "narrow"})

\* ------------------------------------------------------------ a catalog
\* ticket type t1 in the configurations POST .../ticket-types can store
\* (and with no value in max_per_order), with room for a full order line
CatalogQuantity == QuantityMax + 1

\* (sale_start_date, sale_end_date): saleEndDate after saleStartDate when
\* both are given (tickets.js:201-208)
SaleWindows ==
  { <<NULL, NULL>>, <<NULL, 0>>, <<NULL, 1>>, <<0, 1>>, <<MaxTime, NULL>> }

CatalogRow(price, max, window, active) ==
  [TicketTypeRow("t1", "e1", CatalogQuantity, price) EXCEPT
     !.max_per_order = max,
     !.sale_start_date = window[1],
     !.sale_end_date = window[2],
     !.is_active = active]

CatalogTables ==
  { { CatalogRow(price, max, window, active), TicketTypeRow("t2", "e1", 2, 5) } :
      price \in {20, 25},
      max \in {1, 2, DefaultMaxPerOrder, NULL},
      window \in SaleWindows,
      active \in BOOLEAN }

\* rows of an earlier, completed purchase of t1 (order 0): `sold` tickets
\* that count against the capacity and one cancelled ticket that does not
PriorTickets(sold) ==
  { [TicketRow(0, n, FreshCode(0, n), "t1") EXCEPT
       !.status = IF n = 0 THEN "cancelled" ELSE "valid"] : n \in 0..sold }

PriorOrders(sold, price) ==
  { [id |-> 0, event_id |-> "e1", total_amount |-> (sold + 1) * price,
     status |-> "completed"] }

CatalogBodies ==
  { [eventId |-> "e1", tickets |-> <<OrderLine("t1", q)>>] :
      q \in {0, 1, 2, 3, QuantityMax, QuantityMax + 1} }
  \cup
  { [eventId |-> "e1", tickets |-> <<OrderLine("t2", q), OrderLine("t1", 1)>>] :
      q \in {1, 3} }
  \cup
  { [eventId |-> "e2", tickets |-> <<OrderLine("t1", 1)>>] }

\* one caller, t1 in every configuration, its inventory full, partly sold
\* or sold out
InitCatalog ==
  /\ backend \in Backends
  /\ codeSpace = "wide"
  /\ bodies = CatalogBodies
  /\ callers = {1}
  /\ now = 1
  /\ ticket_types \in CatalogTables
  /\ \E sold \in {0, CatalogQuantity - 1, CatalogQuantity} :
       /\ tickets = PriorTickets(sold)
       /\ orders = PriorOrders(sold, 20)
  /\ txn = [c \in Conns |-> NoTxn]
  /\ att = [p \in Attempts |-> Idle]
  /\ faults = 0
  /\ NoCalls

\* requests that create tickets of t2, and of t1 and t2
CodeBodies ==
  { [eventId |-> "e1", tickets |-> <<OrderLine("t2", 1)>>],
    [eventId |-> "e1", tickets |-> <<OrderLine("t2", 2)>>],
    [eventId |-> "e1", tickets |-> <<OrderLine("t1", 1), OrderLine("t2", 1)>>] }

\* two concurrent purchases whose codes come from the narrow code space
InitCodes == InitWith(Backends, CodeBodies, {1, 2}, {"narrow"})

\* ------------------------------------------------------- POST /validate
\* a code as the caller sends it; the stored codes are upper-case
\* (generateTicketCode, tickets.js:60), code.toUpperCase() yields the stored
\* form of either spelling
ToUpperCase(code) == code.text

\* the code of an existing ticket in either spelling, a code no ticket
\* carries, and no code at all
ValidateCodes ==
  { [text |-> c, upper |-> u] :
      c \in { t.code : t \in tickets } \cup {0, NULL}, u \in BOOLEAN }

\* tickets.js:588-595: the ticket of that code joined with its ticket type
\* and event (no statement of the routes sets tickets.deleted_at)
ValidateRows(text) ==
  { row \in [ticket : { r \in tickets : r.code = text }, event : events] :
      \E tt \in ticket_types :
        /\ tt.id = row.ticket.ticket_type_id
        /\ tt.event_id = row.event.id }

\* tickets.js:597-637: the checks before the ticket is marked, "none" when
\* all pass
ValidateError(rows, nowv) ==
  IF rows = {} THEN "InvalidCode"
  ELSE LET row == CHOOSE r \in rows : TRUE
       IN IF row.ticket.status = "cancelled" THEN "Cancelled"
          ELSE IF row.ticket.status = "used" THEN "Used"
          ELSE IF nowv < row.event.start_date THEN "NotStarted"
          ELSE IF nowv > row.event.end_date THEN "EventEnded"
          ELSE "none"

\* the status of order id as a query would read it now
OrderStatus(id) ==
  IF \E o \in orders : o.id = id
  THEN (CHOOSE o \in orders : o.id = id).status ELSE "none"

Answer(call, answer) == [call EXCEPT !.pc = "done", !.answer = answer]

\* where the validate handler goes after its SELECT
AfterValidateRead(call, rows, nowv) ==
  LET err == ValidateError(rows, nowv)
  IN IF err # "none" THEN Answer(call, err)
     ELSE LET row == CHOOSE r \in rows : TRUE
          IN [call EXCEPT !.pc = "update", !.id = row.ticket.id,
                          !.seen = OrderStatus(row.ticket.order_id)]

EntryFixed ==
  UNCHANGED <<backend, bodies, callers, now, ticket_types, codeSpace, txn, att>>

\* the request arrives: the check of the body, the SELECT and the checks on
\* the row; the catch clause answers 500 when the query rejects
ValidateRead(v) ==
  /\ val[v].pc = "idle"
  /\ \E code \in ValidateCodes, f \in MayThrow :
       /\ code.text = NULL => ~f
       /\ faults' = IF f THEN faults + 1 ELSE faults
       /\ val' = [val EXCEPT ![v] =
                    IF code.text = NULL THEN Answer(@, "CodeRequired")
                    ELSE IF f THEN Answer(@, "Error")
                    ELSE AfterValidateRead(@, ValidateRows(ToUpperCase(code)),
                                           now)]
  /\ UNCHANGED <<orders, tickets, ref, con>>
  /\ EntryFixed

\* tickets.js:640-647: UPDATE tickets SET status = 'used' WHERE id = $1
MarkUsed(id) ==
  { IF t.id = id THEN [t EXCEPT !.status = "used"] ELSE t : t \in tickets }

\* the UPDATE, logActivity and res.json({ valid: true }); when the UPDATE
\* rejects or logActivity throws the catch clause answers 500
ValidateUpdate(v) ==
  /\ val[v].pc = "update"
  /\ \E f \in MayThrow, g \in MayThrow :
       /\ ~(f /\ g)
       /\ faults' = IF f \/ g THEN faults + 1 ELSE faults
       /\ tickets' = IF f THEN tickets ELSE MarkUsed(val[v].id)
       /\ val' = [val EXCEPT ![v] =
                    Answer(@, IF f \/ g THEN "Error" ELSE "valid")]
  /\ UNCHANGED <<orders, ref, con>>
  /\ EntryFixed

\* -------------------------------------------- POST /refund, POST /confirm
\* order ids a caller may name: the orders of the store and one that is not
OrderIds == { o.id : o \in orders } \cup {0}

\* amounts a caller may ask back: none, the order total, more than the total
RefundAmounts(id) ==
  {0} \cup { o.total_amount + d : o \in { x \in orders : x.id = id },
                                  d \in {0, 1} }

\* database.js:769-776: the order, for its buyer or the organizer of its event
RefundRows(id, mine) ==
  { o \in orders :
      o.id = id /\ mine /\ \E e \in events : e.id = o.event_id }

\* database.js:778-790: the checks before the refund, "none" when all pass
RefundError(rows, amount) ==
  IF rows = {} THEN "OrderNotFound"
  ELSE LET order == CHOOSE o \in rows : TRUE
       IN IF order.status # "completed" THEN "NotEligible"
          ELSE IF amount > order.total_amount THEN "TooMuch"
          ELSE "none"

\* where the refund handler goes after its SELECT
AfterRefundRead(call, rows, amount) ==
  LET err == RefundError(rows, amount)
  IN IF err # "none" THEN Answer(call, err)
     ELSE LET order == CHOOSE o \in rows : TRUE
          IN [call EXCEPT !.pc = "update", !.id = order.id,
                          !.seen = order.status]

\* the request arrives: the check of the body, the SELECT and the checks on
\* the order; the catch clause answers 500 when the query rejects
RefundRead(r) ==
  /\ ref[r].pc = "idle"
  /\ \E id \in OrderIds, mine \in BOOLEAN, f \in MayThrow :
       \E amount \in RefundAmounts(id) :
         /\ amount = 0 => ~f
         /\ faults' = IF f THEN faults + 1 ELSE faults
         /\ ref' = [ref EXCEPT ![r] =
                      IF amount = 0 THEN Answer(@, "Required")
                      ELSE IF f THEN Answer(@, "Error")
                      ELSE AfterRefundRead(@, RefundRows(id, mine), amount)]
  /\ UNCHANGED <<orders, tickets, val, con>>
  /\ EntryFixed

\* UPDATE orders SET status = $1 WHERE id = $2 (database.js:695-699, 796-802)
SetOrderStatus(id, status) ==
  { IF o.id = id THEN [o EXCEPT !.status = status] ELSE o : o \in orders }

\* the UPDATE and res.json of the refund
RefundUpdate(r) ==
  /\ ref[r].pc = "update"
  /\ \E f \in MayThrow :
       /\ faults' = IF f THEN faults + 1 ELSE faults
       /\ orders' = IF f THEN orders ELSE SetOrderStatus(ref[r].id, "refunded")
       /\ ref' = [ref EXCEPT ![r] = Answer(@, IF f THEN "Error" ELSE "refunded")]
  /\ UNCHANGED <<tickets, val, con>>
  /\ EntryFixed

\* database.js:671-676: the caller's order while it is pending
ConfirmRows(id, mine) ==
  { o \in orders : o.id = id /\ mine /\ o.status = "pending" }

\* where the confirm handler goes after its SELECT
AfterConfirmRead(call, rows) ==
  IF rows = {} THEN Answer(call, "OrderNotFound")
  ELSE LET order == CHOOSE o \in rows : TRUE
       IN [call EXCEPT !.pc = "pay", !.id = order.id, !.seen = order.status]

\* the request arrives: the check of the body and the SELECT
ConfirmRead(c) ==
  /\ con[c].pc = "idle"
  /\ \E id \in OrderIds \cup {NULL}, mine \in BOOLEAN, f \in MayThrow :
       /\ id = NULL => ~f
       /\ faults' = IF f THEN faults + 1 ELSE faults
       /\ con' = [con EXCEPT ![c] =
                    IF id = NULL THEN Answer(@, "Required")
                    ELSE IF f THEN Answer(@, "Error")
                    ELSE AfterConfirmRead(@, ConfirmRows(id, mine))]
  /\ UNCHANGED <<orders, tickets, val, ref>>
  /\ EntryFixed

\* processPayment resolves or throws (Math.random() > 0.1), then the UPDATE
\* and res.json
ConfirmUpdate(c) ==
  /\ con[c].pc = "pay"
  /\ \E paid \in BOOLEAN, f \in MayThrow :
       /\ ~paid => ~f
       /\ faults' = IF f THEN faults + 1 ELSE faults
       /\ orders' = IF paid /\ ~f
                    THEN SetOrderStatus(con[c].id, "completed") ELSE orders
       /\ con' = [con EXCEPT ![c] =
                    Answer(@, IF ~paid THEN "PaymentFailed"
                              ELSE IF f THEN "Error" ELSE "succeeded")]
  /\ UNCHANGED <<tickets, val, ref>>
  /\ EntryFixed

\* the store after a committed purchase of one ticket of t1; on the shared
\* SQLite handle a purchase can also leave its order pending (another
\* attempt's ROLLBACK ends its transaction, its INSERT then persists alone)
EntryTickets == { TicketRow(1, 1, FreshCode(1, 1), "t1") }

EntryOrders(b) ==
  { { [id |-> 1, event_id |-> "e1", total_amount |-> 20,
       status |-> "completed"] } \cup left :
      left \in IF b = "postgres" THEN { {} }
               ELSE { {}, { [id |-> 2, event_id |-> "e1", total_amount |-> 20,
                             status |-> "pending"] } } }

\* tickets are validated at the door, orders refunded and confirmed
InitEntry ==
  /\ backend \in Backends
  /\ codeSpace = "wide"
  /\ bodies = {}
  /\ callers = {}
  /\ now = 1
  /\ ticket_types \in TicketTypeTables
  /\ tickets = EntryTickets
  /\ orders \in EntryOrders(backend)
  /\ txn = [c \in Conns |-> NoTxn]
  /\ att = [p \in Attempts |-> Idle]
  /\ faults = 0
  /\ NoCalls

\* the caller's connection closes (or its timeout elapses) after BEGIN has
\* returned and before COMMIT is issued; the handler registers no listener
\* for it and reads no deadline, so none of its locals changes
Disconnect(p) ==
  /\ att[p].pc \in {"event", "types", "order", "ticket", "update", "commit"}
  /\ ~att[p].closed
  /\ att' = [att EXCEPT ![p].closed = TRUE]
  /\ UNCHANGED <<orders, tickets, txn, faults>>
  /\ Fixed

\* one purchase whose caller may go away
InitCancel == InitWith(Backends, RaceBodies, {1}, {"wide"})

Next ==
  \/ \E p \in Attempts :
       \/ Receive(p)
       \/ Begin(p)
       \/ CheckEvent(p)
       \/ CheckTickets(p)
       \/ CreateOrder(p)
       \/ CreateTicket(p)
       \/ CompleteOrder(p)
       \/ Commit(p)
       \/ Rollback(p)
  \/ Tick

Spec == Init /\ [][Next]_vars
SpecPostgres == InitPostgres /\ [][Next]_vars
SpecInputs == InitInputs /\ [][Next]_vars
SpecCatalog == InitCatalog /\ [][Next]_vars
SpecCodes == InitCodes /\ [][Next]_vars

NextCancel ==
  \/ Next
  \/ \E p \in Attempts : Disconnect(p)

SpecCancel == InitCancel /\ [][NextCancel]_vars

NextEntry ==
  \/ \E k \in Calls :
       \/ ValidateRead(k)
       \/ ValidateUpdate(k)
       \/ RefundRead(k)
       \/ RefundUpdate(k)
       \/ ConfirmRead(k)
       \/ ConfirmUpdate(k)
  \/ Tick

SpecEntry == InitEntry /\ [][NextEntry]_vars

\* ---------------------------------------------------------------- claims
OrdersOf(p) == { o \in orders : o.id = p }
TicketsOf(p) == { t \in tickets : t.order_id = p }
TicketsOfType(id) ==
  { t \in tickets : t.ticket_type_id = id /\ t.status # "cancelled" }
Done(p) == att[p].pc = "done"
Succeeded(p) == att[p].outcome = "success"
Failed(p) == att[p].outcome \in {"error", "crash"}

\* C1: in every reachable state, for every ticket type, the number of
\* persisted ticket rows of the type that are not cancelled is at most the
\* type's capacity (no oversell under concurrent purchases).
C1_NoOversell ==
  \A tt \in ticket_types : Cardinality(TicketsOfType(tt.id)) <= tt.quantity

UnitBody == [eventId |-> "e1", tickets |-> <<OrderLine("t1", 1)>>]
CapacityT1 == (CHOOSE tt \in ticket_types : tt.id = "t1").quantity

\* C2: with capacity N and M > N concurrent, otherwise eligible purchases of
\* one unit each, exactly N succeed, exactly M - N are rejected for
\* insufficient inventory with 0 remaining, and exactly N ticket rows exist.
C2_ExactlyCapacitySucceed ==
  ( /\ \A p \in Attempts :
         /\ Done(p)
         /\ att[p].body = UnitBody
         /\ att[p].verdict \in {"none", "Insufficient"}
    /\ faults = 0
    /\ NumAttempts > CapacityT1 )
  => /\ Cardinality({ p \in Attempts : Succeeded(p) }) = CapacityT1
     /\ Cardinality({ p \in Attempts :
                        /\ att[p].outcome = "error"
                        /\ att[p].error = "Insufficient"
                        /\ att[p].avail = 0 }) = NumAttempts - CapacityT1
     /\ Cardinality(TicketsOfType("t1")) = CapacityT1

\* C3: a purchase attempt that ends with an error outcome, whatever step
\* failed after BEGIN (a step after the COMMIT included), leaves no order row
\* and no ticket row of that attempt in the store.
C3_FailedAttemptLeavesNothing ==
  \A p \in Attempts :
    (Done(p) /\ Failed(p)) => (OrdersOf(p) = {} /\ TicketsOf(p) = {})

\* C4: the success response of a purchase is sent only after the attempt's
\* transaction has committed: whenever an attempt has answered success, its
\* COMMIT has returned and its order row and every ticket row it created are
\* committed rows.
C4_SuccessOnlyAfterCommit ==
  \A p \in Attempts :
    Succeeded(p) =>
      /\ att[p].commitOk
      /\ \E o \in OrdersOf(p) : o.status = "completed"
      /\ Cardinality(TicketsOf(p)) = att[p].created

RECURSIVE UnitsFrom(_, _)
UnitsFrom(lines, k) ==
  IF k > Len(lines) THEN 0
  ELSE (IF lines[k].quantity > 0 THEN lines[k].quantity ELSE 0)
       + UnitsFrom(lines, k + 1)

\* C5: no committed state shows an order created by purchase that is still
\* pending, or a completed order without all of its ticket rows.
C5_NoPartialOrderVisible ==
  \A o \in orders :
    /\ o.status # "pending"
    /\ o.status = "completed" =>
         Cardinality(TicketsOf(o.id)) = UnitsFrom(att[o.id].body.tickets, 1)

InFlight(q) == att[q].pc \notin {"idle", "done"}
RowsOf(q) ==
  [orders |-> OrdersOf(q),
   tickets |-> TicketsOf(q),
   pendingOrders |-> UNION { { o \in txn[c].orders : o.id = q } : c \in Conns },
   pendingTickets |->
     UNION { { t \in txn[c].tickets : t.order_id = q } : c \in Conns }]

\* C6: a step of one attempt (its BEGIN, COMMIT or ROLLBACK included) never
\* commits or discards the uncommitted writes of another in-flight attempt,
\* on the pooled PostgreSQL client and on the shared SQLite handle alike.
C6_IndependentScopes ==
  [][ \A q \in Attempts :
        (InFlight(q) /\ att'[q] = att[q]) => RowsOf(q)' = RowsOf(q) ]_vars

\* C7: every check of a purchase (request validation, event, every line item)
\* is over before the first write: an attempt whose checks did not all pass
\* has issued no INSERT and no UPDATE.
C7_ChecksBeforeWrites ==
  \A p \in Attempts :
    /\ att[p].verdict # "none" => att[p].wrote = 0
    /\ att[p].outcome = "invalid" => att[p].wrote = 0

TwoLineBody ==
  [eventId |-> "e1", tickets |-> <<OrderLine("t2", 1), OrderLine("t1", 2)>>]

C7_Witness ==
  \E p \in Attempts :
    /\ Done(p)
    /\ att[p].body = TwoLineBody
    /\ att[p].verdict = "Insufficient"
    /\ att[p].outcome = "error"
    /\ att[p].wrote = 0
    /\ orders = {} /\ tickets = {}

\* C8: a committed purchase has created, for each line item, exactly
\* `quantity` ticket rows of that line's ticket type owned by the new order.
C8_ExactlyQuantityRows ==
  \A p \in Attempts :
    Succeeded(p) =>
      \A k \in 1..Len(att[p].body.tickets) :
        Cardinality({ t \in TicketsOf(p) :
                        t.ticket_type_id = att[p].body.tickets[k].ticketTypeId })
          = att[p].body.tickets[k].quantity

\* C9: a purchase never reports success with zero tickets: every committed
\* order owns at least one ticket row.
C9_NoEmptyOrder ==
  /\ \A p \in Attempts : Succeeded(p) => att[p].created >= 1
  /\ \A o \in orders : TicketsOf(o.id) # {}

WellFormed(body) ==
  /\ Len(body.tickets) \in TicketsMinLength..TicketsMaxLength
  /\ \A k \in 1..Len(body.tickets) :
       body.tickets[k].quantity \in QuantityMin..QuantityMax

\* C10: a purchase request is admitted only with 1..20 line items, each of a
\* quantity in 1..10; any other request is rejected before any store write.
C10_OnlyWellFormedAdmitted ==
  \A p \in Attempts :
    (att[p].pc # "idle" /\ ~WellFormed(att[p].body)) =>
      (att[p].wrote = 0 /\ ~Succeeded(p))

PriceOf(id) == (CHOOSE tt \in ticket_types : tt.id = id).price

RECURSIVE SumOfLines(_, _)
SumOfLines(lines, k) ==
  IF k > Len(lines) THEN 0
  ELSE PriceOf(lines[k].ticketTypeId) * lines[k].quantity + SumOfLines(lines, k + 1)

\* C11: the total_amount of every committed order of a purchase equals the
\* sum over the line items of the request of price * quantity, the price
\* being the one the ticket type carries when the purchase's transaction
\* reads it.
C11_TotalIsSumOfLines ==
  \A o \in orders :
    o.id \in Attempts => o.total_amount = SumOfLines(att[o.id].body.tickets, 1)

C11_Witness ==
  \E p \in Attempts :
    /\ Succeeded(p)
    /\ att[p].body.tickets = <<OrderLine("t2", 1), OrderLine("t1", 1)>>
    /\ PriceOf("t1") = 25
    /\ \E o \in orders : o.id = p /\ o.total_amount = 30 /\ o.status = "completed"

\* C12: every ticket row a purchase creates stores a purchase_price equal to
\* the price of its ticket type as the purchase read it (and keeps it, since
\* no later step writes the row's purchase_price).
C12_PurchasePriceStored ==
  \A t \in tickets :
    t.order_id \in Attempts => t.purchase_price = PriceOf(t.ticket_type_id)

TypeOf(id) == CHOOSE tt \in ticket_types : tt.id = id

\* the ticket type is on sale at time nowv
OnSale(tt, nowv) ==
  /\ tt.is_active
  /\ tt.sale_start_date = NULL \/ tt.sale_start_date <= nowv
  /\ tt.sale_end_date = NULL \/ tt.sale_end_date >= nowv

\* the units of the type still unsold in the committed store
Remaining(id) == TypeOf(id).quantity - Cardinality(TicketsOfType(id))

\* the per-order maximum of a type: the stored one, 10 when none is stored
MaxPurchase(tt) ==
  IF tt.max_per_order = NULL THEN DefaultMaxPerOrder ELSE tt.max_per_order

\* the attempt has just run its per-line checks on a request of one line
CheckedOneLine(p) ==
  /\ att[p].pc \in {"order", "rollback"}
  /\ att[p].verdict \notin {"unchecked", "EventUnavailable", "EventStarted"}
  /\ att[p].wrote = 0
  /\ Len(att[p].body.tickets) = 1

\* C13: for a ticket type on sale with enough inventory, a line of exactly
\* the type's per-order maximum passes the checks and a line of the maximum
\* plus one is rejected for the per-order limit, whatever the maximum is, a
\* row without a value in max_per_order included.
C13_MaxPerOrderBoundary ==
  \A p \in Attempts :
    CheckedOneLine(p) =>
      LET line == att[p].body.tickets[1]
          tt == TypeOf(line.ticketTypeId)
      IN (OnSale(tt, att[p].now) /\ line.quantity <= Remaining(tt.id)) =>
           /\ line.quantity = MaxPurchase(tt) => att[p].verdict = "none"
           /\ line.quantity = MaxPurchase(tt) + 1 =>
                att[p].verdict = "MaxPerOrder"

\* the units of the type left, as a statement on connection c sees the store
RemainingFor(c, id) ==
  TypeOf(id).quantity -
    Cardinality({ t \in ViewTickets(c) :
                    t.ticket_type_id = id /\ t.status # "cancelled" })

MinOf(S) == CHOOSE x \in S : \A y \in S : x <= y

\* the lines of the request of p that ask for more than is left
OverRemaining(p) ==
  { k \in 1..Len(att[p].body.tickets) :
      att[p].body.tickets[k].quantity >
        RemainingFor(att[p].client, att[p].body.tickets[k].ticketTypeId) }

SaleOver(tt, nowv) == tt.sale_end_date # NULL /\ tt.sale_end_date < nowv

\* the attempt has run its per-line checks
Checked(p) ==
  att[p].verdict \notin {"unchecked", "EventUnavailable", "EventStarted", "NotFound"}

C16_UniqueCodes ==
  \A t, u \in tickets : t.code = u.code => t = u

C16_Witness ==
  \E p, q \in Attempts :
    /\ p # q
    /\ Succeeded(p) /\ TicketsOf(p) # {}
    /\ Done(q) /\ att[q].error = "UniqueViolation" /\ TicketsOf(q) = {}
    /\ \E t \in TicketsOf(p) : t.code \in NarrowCodes

\* C17: an INSERT of a ticket that hits the uniqueness constraint on the code
\* is retried with a regenerated code; the purchase fails for the collision
\* only after more than one try for that ticket, so a single collision does
\* not fail the purchase.
C17_CollisionIsRetried ==
  \A p \in Attempts :
    att[p].error = "UniqueViolation" => att[p].tries > 1

TicketStatuses == {"active", "used", "refunded", "transferred"}

\* C18: every ticket row is created with status active, and the status of
\* every ticket row, committed or written in an open transaction, is one of
\* active, used, refunded, transferred.
C18_TicketStatusValues ==
  /\ \A t \in tickets : t.status \in TicketStatuses
  /\ \A c \in Conns : \A t \in txn[c].tickets : t.status = "active"

CheckErrors ==
  {"EventUnavailable", "EventStarted", "NotFound", "Inactive", "NotStarted",
   "Ended", "MaxPerOrder", "Insufficient"}

\* the state of the attempt in the state machine of a purchase; the catch
\* clause belongs to the state in which the exception was thrown
Phase(a) ==
  CASE a.pc = "idle" -> "NotStarted"
    [] a.pc = "begin" -> "Started"
    [] a.pc \in {"event", "types"} -> "Validating"
    [] a.pc \in {"order", "ticket", "update", "commit"} -> "Reserving"
    [] a.pc = "rollback" ->
         IF a.verdict = "none" THEN "Reserving" ELSE "Validating"
    [] a.pc = "done" ->
         IF a.outcome = "success" THEN "Committed"
         ELSE IF a.outcome = "invalid" \/ a.verdict \in CheckErrors
           THEN "Rejected"
         ELSE "Aborted"

PhaseSteps ==
  { <<"NotStarted", "Started">>, <<"NotStarted", "Rejected">>,
    <<"Started", "Validating">>,
    <<"Validating", "Rejected">>, <<"Validating", "Reserving">>,
    <<"Validating", "Aborted">>,
    <<"Reserving", "Aborted">>, <<"Reserving", "Committed">> }

\* an outcome has been delivered to the caller
Delivered(a) == a.status # NoResponse

\* the steps of the attempts follow the state machine and a terminal state
\* is never left
PhasesFollowMachine ==
  \A p \in Attempts :
    \/ Phase(att'[p]) = Phase(att[p])
    \/ <<Phase(att[p]), Phase(att'[p])>> \in PhaseSteps

\* C19: an attempt moves Started, Validating, then Rejected or Reserving,
\* then Aborted or Committed (a failing statement aborts it from any state),
\* never leaves a terminal state, and is in a terminal state only with an
\* outcome delivered to the caller, also when its ROLLBACK statement failed.
C19_AttemptStateMachine ==
  [][ /\ PhasesFollowMachine
      /\ \A p \in Attempts : att'[p].pc = "done" => Delivered(att'[p]) ]_vars

\* C20: a purchase ended by an unexpected failure of the store (the read of
\* the ticket types, an INSERT, the UPDATE or the COMMIT rejects) answers
\* with a 500-class status, and none of its rows persists.
C20_StoreFailureIs500 ==
  \A p \in Attempts :
    (Done(p) /\ att[p].error = "StoreFailure" /\ att[p].now # NULL) =>
      /\ att[p].status \in 500..599
      /\ OrdersOf(p) = {} /\ TicketsOf(p) = {}

\* C21: when the caller disconnects or a timeout elapses while an attempt
\* has begun its transaction and not yet committed, the attempt does not
\* commit and no order or ticket row of it persists.
C21_DisconnectRollsBack ==
  \A p \in Attempts :
    att[p].closed =>
      /\ ~att[p].commitOk
      /\ OrdersOf(p) = {} /\ TicketsOf(p) = {}

\* C26: every attempt that obtained a client releases it exactly once, on
\* every path (commit, rejection by a check, store failure, failure of the
\* ROLLBACK itself), and not before the handler ends; an attempt refused by
\* the request validator never obtained one.
C26_ReleasedExactlyOnce ==
  \A p \in Attempts :
    att[p].released =
      (IF Done(p) /\ att[p].outcome # "invalid" THEN 1 ELSE 0)

C26_Witness ==
  \E p \in Attempts :
    /\ Done(p) /\ att[p].outcome = "crash" /\ att[p].error \in CheckErrors
    /\ att[p].released = 1

\* the request names one ticket type in two or more lines
HasDuplicateLines(body) ==
  \E j, k \in 1..Len(body.tickets) :
    j # k /\ body.tickets[j].ticketTypeId = body.tickets[k].ticketTypeId

\* the attempt has run the ticket type lookup
LookedUp(p) ==
  att[p].verdict \notin {"unchecked", "EventUnavailable", "EventStarted"}

\* C25: a request that names the same ticket type in two or more lines is
\* rejected as a whole: once the lookup has run its verdict is "ticket types
\* not found", it writes no row and never succeeds.
C25_DuplicateLinesRejected ==
  \A p \in Attempts :
    HasDuplicateLines(att[p].body) =>
      /\ LookedUp(p) => att[p].verdict = "NotFound"
      /\ att[p].wrote = 0 /\ ~Succeeded(p)
      /\ OrdersOf(p) = {} /\ TicketsOf(p) = {}

C25_Witness ==
  \E p \in Attempts :
    /\ HasDuplicateLines(att[p].body) /\ Len(att[p].body.tickets) = 3
    /\ Done(p) /\ att[p].verdict = "NotFound" /\ att[p].status = BadRequest

\* the event exists, is not soft-deleted, is published and starts strictly
\* after nowv
Eligible(eventId, nowv) ==
  \E e \in events :
    /\ e.id = eventId /\ e.deleted_at = NULL /\ e.status = "published"
    /\ e.start_date > nowv

\* the attempt has passed the checks on the event
Admitted(p) ==
  \/ att[p].pc \in {"types", "order", "ticket", "update", "commit"}
  \/ att[p].wrote > 0
  \/ Succeeded(p)

\* C22: a purchase is admitted only for an event that exists, is not
\* soft-deleted, is published and starts strictly after the time the handler
\* read; an attempt the checks on the event refused writes nothing.
C22_EventMustBeOpen ==
  \A p \in Attempts :
    /\ Admitted(p) =>
         att[p].now # NULL /\ Eligible(att[p].body.eventId, att[p].now)
    /\ att[p].verdict \in {"EventUnavailable", "EventStarted"} =>
         /\ ~Admitted(p)
         /\ OrdersOf(p) = {} /\ TicketsOf(p) = {}

C22_Witness ==
  \E p \in Attempts, e \in events :
    /\ e.id = att[p].body.eventId /\ e.start_date = now
    /\ Done(p) /\ att[p].verdict = "EventStarted" /\ att[p].status = BadRequest

\* ticket type id is a row of ticket_types that is not soft-deleted and
\* belongs to event ev
LiveTypeOf(id, ev) ==
  \E tt \in ticket_types :
    tt.id = id /\ tt.event_id = ev /\ tt.deleted_at = NULL

HasUnknownType(body) ==
  \E k \in 1..Len(body.tickets) :
    ~LiveTypeOf(body.tickets[k].ticketTypeId, body.eventId)

\* C23: when any requested ticket type does not exist, is soft-deleted or
\* belongs to another event, the whole purchase is rejected with "ticket
\* types not found" once the lookup has run, and no row is written.
C23_UnknownTypeRejectsAll ==
  \A p \in Attempts :
    HasUnknownType(att[p].body) =>
      /\ LookedUp(p) => att[p].verdict = "NotFound"
      /\ att[p].wrote = 0 /\ ~Succeeded(p)
      /\ OrdersOf(p) = {} /\ TicketsOf(p) = {}

C23_Witness ==
  \E p \in Attempts :
    /\ Len(att[p].body.tickets) = 2 /\ HasUnknownType(att[p].body)
    /\ LiveTypeOf(att[p].body.tickets[1].ticketTypeId, att[p].body.eventId)
    /\ Done(p) /\ att[p].verdict = "NotFound" /\ att[p].status = BadRequest

\* C30: every persisted ticket row references an existing order, and its
\* ticket type belongs to the event of that order.
C30_TicketsReferenceOrders ==
  \A t \in tickets :
    \E o \in orders, tt \in ticket_types :
      /\ o.id = t.order_id
      /\ tt.id = t.ticket_type_id /\ tt.event_id = o.event_id

\* attempt p runs its checks on the event or on the ticket types in this step
\* and its query is answered
RunsChecks(p) ==
  /\ att[p].pc \in {"event", "types"}
  /\ att'[p].pc # att[p].pc
  /\ att'[p].error # "StoreFailure"

\* attempt q is about to run the ticket type checks p runs, for the same
\* request and with the same reading of the clock
SameValidation(p, q) ==
  /\ q # p
  /\ att[p].pc = "types" /\ att[q].pc = "types"
  /\ att[q].body = att[p].body /\ att[q].now = att[p].now

\* C24: the validation step is read-only and deterministic: a step that runs
\* the checks changes no order, ticket or ticket type row, and a second run
\* for the same request and clock against the store it leaves reads the same
\* ticket type rows with the same sold counts and yields the verdict, the
\* remaining count and the total the first run recorded.
C24_ValidationReadOnlyDeterministic ==
  [][\A p \in Attempts :
       RunsChecks(p) =>
         /\ UNCHANGED <<orders, tickets, txn, ticket_types>>
         /\ \A q \in Attempts :
              SameValidation(p, q) =>
                LET ids == TicketTypeIds(att[p].body.tickets)
                    ev == att[p].body.eventId
                    again == CheckTicketOrders(att[q].client, att[q].body,
                                               att[q].now)'
                IN /\ TicketTypeRows(att[q].client, ids, ev)' =
                        TicketTypeRows(att[p].client, ids, ev)
                   /\ again.error = att'[p].verdict
                   /\ again.error = "none" =>
                        again.total = att'[p].totalAmount
                   /\ again.error # "none" => again.avail = att'[p].avail]_vars

\* two attempts have validated the same request at the same clock reading
\* with no write in between, and hold the same verdict and total
C24_Witness ==
  \E p, q \in Attempts :
    /\ p # q
    /\ att[p].pc = "order" /\ att[q].pc = "order"
    /\ att[p].body = att[q].body /\ att[p].now = att[q].now
    /\ att[p].wrote = 0 /\ att[q].wrote = 0
    /\ att[p].verdict = "none" /\ att[q].verdict = "none"
    /\ att[p].totalAmount = att[q].totalAmount /\ att[p].totalAmount > 0

\* C27: for every ticket at most one validate call ever answers valid:true:
\* no two calls hold that answer for one ticket, and a call that reads a
\* ticket already marked used is refused.
C27_OneEntryPerTicket ==
  \A v, w \in Calls :
    (v # w /\ val[v].answer = "valid" /\ val[w].answer = "valid") =>
      val[v].id # val[w].id

\* C28: a validate call on a ticket whose order has status refunded never
\* answers valid:true and never marks the ticket used.
C28_NoEntryAfterRefund ==
  \A v \in Calls :
    val[v].seen = "refunded" =>
      val[v].pc # "update" /\ val[v].answer # "valid"

\* C29: an order is refunded at most once: no two refund calls succeed for
\* one order, a refund that succeeds read its order completed, and no step
\* moves a refunded order to another status.
C29_RefundedAtMostOnce ==
  [][/\ \A r, s \in Calls :
          (r # s /\ ref'[r].answer = "refunded" /\ ref'[s].answer = "refunded")
            => ref'[r].id # ref'[s].id
     /\ \A r \in Calls :
          ref'[r].answer = "refunded" => ref'[r].seen = "completed"
     /\ \A o \in orders :
          o.status = "refunded" => OrderStatus(o.id)' = "refunded"]_vars

====
